---- MODULE Spec2Model ----
(***************************************************************************)
(* Bounded npm dependency-graph builder of CodeLens                        *)
(* (NpmDependenciesService.buildGraph / traverseDependencies /             *)
(* fetchPackageInfo) as a state machine.  Every action runs one piece of   *)
(* the handler between two suspension points of the async code.            *)
(***************************************************************************)
EXTENDS Integers, Sequences, FiniteSets, TLC

\* ------------------------------------------------------------------ bounds
MaxDepthBound == 3
MaxNodesBound == 3
MaxBuilds == 2
MaxPeriods == 1

\* ------------------------------------------------------- program constants
cacheTTL == 1000 * 60 * 10
managerTTL == 1000 * 60 * 10
FanOutCap == 10
TestMaxNodes == 10
MAX_DEPTH == 2
MAX_NODES == 50
ViewMaxDepth == 2
ViewMaxNodes == 50

\* ------------------------------------------------------------ input domains
Packages == {"a", "b", "c"}
Builds == 1..MaxBuilds

\* a registry entry: has a dist-tags.latest or not, and the dependencies
\* object of that latest version (keys in registry-reported order)
\* (l = "" : the entry carries no latest tag)
Entry(l, d) == [ok |-> TRUE, latest |-> l, versions |-> [v \in {"1.0.0"} |-> d]]
Reg(a, b, c) == [p \in Packages |-> CASE p = "a" -> a [] p = "b" -> b [] OTHER -> c]
Registries ==
  { Reg(Entry("1.0.0", <<>>), Entry("1.0.0", <<>>), Entry("1.0.0", <<>>)),
    Reg(Entry("1.0.0", <<"b">>), Entry("1.0.0", <<>>), Entry("1.0.0", <<>>)),
    Reg(Entry("1.0.0", <<"b">>), Entry("1.0.0", <<"a">>), Entry("1.0.0", <<>>)),
    Reg(Entry("1.0.0", <<"b">>), Entry("1.0.0", <<"c">>), Entry("1.0.0", <<"a">>)),
    Reg(Entry("1.0.0", <<"b", "c">>), Entry("1.0.0", <<"c">>), Entry("1.0.0", <<>>)),
    Reg(Entry("1.0.0", <<"c", "b">>), Entry("", <<"c">>), Entry("1.0.0", <<"a">>)),
    Reg(Entry("1.0.0", <<"a", "b">>), Entry("1.0.0", <<"b", "a", "c">>), Entry("", <<"a">>)),
    Reg(Entry("", <<"b">>), Entry("1.0.0", <<"c", "a">>), Entry("1.0.0", <<"b">>)) }

\* seed strings as the host passes them; " a " is "a" with surrounding blanks
SeedNames == Packages \cup {" a "}
SeedLists ==
  {<<>>} \cup {<<s>> : s \in SeedNames} \cup {<<s, t>> : s, t \in SeedNames}

\* the seed lists of the runs checked for termination
LiveSeedLists ==
  {<<>>} \cup {<<s>> : s \in Packages} \cup {<<"a", t>> : t \in Packages}

\* the limits a caller passes: small ceilings, and the tests' roomy 10
MaxNodesChoices == (1..MaxNodesBound) \cup {TestMaxNodes}
MaxDepthChoices == 0..MaxDepthBound

VARIABLES
  registry,        \* what registry.npmjs.org answers (fixed during a run)
  now,             \* Date.now()
  cache,           \* NpmDependenciesService.cache : name -> entry | absent
  visitedNodes,    \* NpmDependenciesService.visitedNodes
  cycleDetected,   \* NpmDependenciesService.cycleDetected
  netCalls,        \* https.request calls made so far
  cancelled,       \* tokens whose isCancellationRequested is true
  pc,              \* per buildGraph call: where the seed loop stands
  args,            \* per call: packageNames, maxDepth, maxNodes
  seedIdx,         \* per call: index of the seed being processed
  nodes,           \* per call: const nodes: GraphNode[]
  edges,           \* per call: const edges: GraphEdge[]
  stack,           \* per call: chain of suspended traverseDependencies calls
  lookups,         \* per call: fetchPackageInfo calls started
  failures,        \* per call: fetchPackageInfo calls that resolved null
  preCancelled,    \* per call: token already cancelled when buildGraph ran
  raisedEarly,     \* tokens cancelled before their build had returned
  selection,       \* NpmDepsGraphView.selection
  cancellation,    \* NpmDepsGraphView.cancellation (0: undefined)
  handler,         \* per host handler run: where it stands, its cache key
  firedEarly,      \* builds whose 30 s timer fired before they returned
  outbox,          \* messages posted to the webview
  graphCache,      \* DependenciesInsightsController.graphCache
  clearedSince,    \* builds begun before a clearCache() that has run since
  clearMark,       \* netCalls when clearCache() last ran
  cmCache,         \* CacheManager.cache : key -> entry | absent
  cmResult,        \* what the latest CacheManager.get returned, and when
  cmLast,          \* per key: the latest set not followed by a clear
  calls,           \* per getGraphData call: its clearCache flag, what it returned
  quiet            \* resolved getGraphData calls with no refreshAll or store since

svcVars == <<now, cache, visitedNodes, cycleDetected, netCalls>>
buildVars == <<pc, args, seedIdx, nodes, edges, stack, lookups, failures, preCancelled>>
tokVars == <<cancelled, raisedEarly>>
hostVars == <<selection, cancellation, handler, firedEarly, outbox, graphCache,
              clearedSince, clearMark>>
cmVars == <<cmCache, cmResult, cmLast>>
ctlVars == <<calls, quiet>>
vars == <<registry, svcVars, tokVars, buildVars, hostVars, cmVars, ctlVars>>

\* ------------------------------------------------------------ pure helpers
\* fetchPackageInfo resolves null on every failure path
Null == [ok |-> FALSE, latest |-> "", versions |-> <<>>]

IsNullNever(info) == FALSE

\* if (!packageInfo) / if (depInfo)
IsNull(info) == ~info.ok

Absent == [present |-> FALSE]

\* packageName.trim()
Trim(s) == IF s = " a " THEN "a" ELSE s

\* packageInfo["dist-tags"]?.latest || "unknown"
Version(info) == IF info.latest = "" THEN "unknown" ELSE info.latest

\* `${packageName}@${version}`
NodeId(name, version) == <<name, version>>

Min(x, y) == IF x <= y THEN x ELSE y

\* Object.entries(packageInfo.versions?.[version]?.dependencies || {}).slice(0, 10)
DepEntries(info, version) ==
  IF version \in DOMAIN info.versions
    THEN SubSeq(info.versions[version], 1, Min(FanOutCap, Len(info.versions[version])))
    ELSE <<>>

AddNodeAlways(ns, name, version, level) ==
  Append(ns, [id |-> NodeId(name, version), label |-> name,
              version |-> version, level |-> level])

HasNode(ns, id) == \E k \in 1..Len(ns) : ns[k].id = id

AddNodeSeedsOnly(ns, name, version, level) ==
  IF HasNode(ns, NodeId(name, version)) \/ level > 0
    THEN ns
    ELSE AddNodeAlways(ns, name, version, level)

AddNodeRelevel(ns, name, version, level) ==
  IF HasNode(ns, NodeId(name, version))
    THEN [k \in 1..Len(ns) |->
            IF ns[k].id = NodeId(name, version) THEN [ns[k] EXCEPT !.level = level]
                                                ELSE ns[k]]
    ELSE Append(ns, [id |-> NodeId(name, version), label |-> name,
                     version |-> version, level |-> level])

\* if (!nodes.find(n => n.id === id)) nodes.push({...})
AddNode(ns, name, version, level) ==
  IF HasNode(ns, NodeId(name, version))
    THEN ns
    ELSE Append(ns, [id |-> NodeId(name, version), label |-> name,
                     version |-> version, level |-> level])

HasEdge(es, from, to) == \E k \in 1..Len(es) : es[k].from = from /\ es[k].to = to

\* if (!edges.find(e => e.from === from && e.to === to)) edges.push({from, to})
AddEdge(es, from, to) ==
  IF HasEdge(es, from, to) THEN es ELSE Append(es, [from |-> from, to |-> to])

\* cached && Date.now() - cached.timestamp < this.cacheTTL
CacheHit(name) == cache[name].present /\ now - cache[name].timestamp < cacheTTL

RepliesUnsettled(f, name) == IF f.hit THEN {f.data} ELSE {}

\* what an in-flight fetchPackageInfo can resolve to
Replies(f, name) == IF f.hit THEN {f.data} ELSE {registry[name], Null}

CacheAfterNever(f, name, r) == cache

\* this.cache.set(packageName, {data, timestamp}) on a 200 answer that parses
CacheAfter(f, name, r) ==
  IF ~f.hit /\ r.ok
    THEN [cache EXCEPT ![name] = [present |-> TRUE, data |-> r, timestamp |-> now,
                                  req |-> f.req]]
    ELSE cache

NewFrameDeeper(name, depth) ==
  [packageName |-> name, currentDepth |-> depth + 1, at |-> "enter",
   version |-> "", depEntries |-> <<>>, i |-> 1, hit |-> FALSE, data |-> Null,
   req |-> 0]

\* a traverseDependencies(packageName, currentDepth, ...) call that begins
NewFrame(name, depth) ==
  [packageName |-> name, currentDepth |-> depth, at |-> "enter",
   version |-> "", depEntries |-> <<>>, i |-> 1, hit |-> FALSE, data |-> Null,
   req |-> 0]

Top(b) == stack[b][Len(stack[b])]

SeedsOfDefault(packageNames) ==
  IF packageNames = <<>> THEN <<"a">> ELSE packageNames

\* for (const packageName of packageNames)
SeedsOf(packageNames) == packageNames

EntryGuardNoLimit(b, f) ==
  \/ f.currentDepth > args[b].maxDepth
  \/ b \in cancelled

\* if (currentDepth > maxDepth || nodes.length >= maxNodes) return;
\* if (cancellationToken?.isCancellationRequested) return;
EntryGuard(b, f) ==
  \/ f.currentDepth > args[b].maxDepth
  \/ Len(nodes[b]) >= args[b].maxNodes
  \/ b \in cancelled

LoopBreakNoLimit(b) == b \in cancelled

LoopBreakNoCancel(b) == Len(nodes[b]) >= args[b].maxNodes

\* if (nodes.length >= maxNodes || cancellationToken?.isCancellationRequested) break;
LoopBreak(b) == Len(nodes[b]) >= args[b].maxNodes \/ b \in cancelled

MayRecurseShallow(currentDepth, maxDepth) == currentDepth < maxDepth - 2

\* if (currentDepth < maxDepth - 1) recurse
MayRecurse(currentDepth, maxDepth) == currentDepth < maxDepth - 1

OnPathNever(name) == FALSE

\* if (this.visitedNodes.has(nodeId))
OnPath(name) == name \in visitedNodes


\* the seed loop moves on to the next element
NextSeed(i) == i + 1

SetTop(b, f) == [stack EXCEPT ![b] = [@ EXCEPT ![Len(@)] = f]]

\* the frame whose fetch begins: asks the cache, else the net; req numbers the
\* https request the answer comes from
Fetching(f, name, at) ==
  [f EXCEPT !.at = at, !.hit = CacheHit(name),
            !.data = IF CacheHit(name) THEN cache[name].data ELSE Null,
            !.req = IF CacheHit(name) THEN cache[name].req ELSE netCalls + 1]

\* a traverseDependencies call returns to its caller (or to the seed loop)
Return(b) ==
  /\ stack' = [stack EXCEPT ![b] = SubSeq(@, 1, Len(@) - 1)]
  /\ pc' = [pc EXCEPT ![b] = IF Len(stack[b]) = 1 THEN "afterSeed" ELSE "inCall"]

\* a handler run that has not begun
NoHandler == [at |-> "none", key |-> <<>>]

\* the registries the two hosts are run against: a -> b, and a <-> b
HostRegistries ==
  { Reg(Entry("1.0.0", <<"b">>), Entry("1.0.0", <<>>), Entry("1.0.0", <<>>)),
    Reg(Entry("1.0.0", <<"b">>), Entry("1.0.0", <<"a">>), Entry("1.0.0", <<>>)) }

\* message.packageNames of the webview's changeSelection / refresh / buildGraph
HostSelections == {<<>>, <<"a">>, <<"b">>}

\* message.workspace of the view's buildGraph ("" : none given)
Workspaces == {""}

\* workspaceFolder?.uri.fsPath || "default"
WsPath(w) == IF w = "" THEN "default" ELSE w

\* packageNames.join(",")
Join(names) ==
  CASE names = <<>> -> ""
    [] names = <<"a">> -> "a"
    [] names = <<"b">> -> "b"
    [] OTHER -> "a,b"

\* `${wsPath}-${packageNames.join(",")}`
CacheKey(w, names) == <<WsPath(w), Join(names)>>

CacheKeys == {CacheKey(w, names) : w \in Workspaces, names \in HostSelections}

\* a message posted to the webview: its command, the handler run that posts
\* it, the build whose graph it carries (0: none / the literal empty graph)
\* and the selection it carries
Msg(command, of, graph, sel) ==
  [command |-> command, of |-> of, graph |-> graph, selection |-> sel]

\* the keys and the data handed to the CacheManager
Keys == {"a", "b"}
Values == {"v1", "v2"}

\* no get has returned since the cache was last written
NoResult == [op |-> "none", key |-> "", value |-> "undefined", at |-> 0]
NeverSet == [set |-> FALSE, value |-> "undefined", at |-> 0]

\* a getGraphData call not made yet
NoCall == [clearCache |-> FALSE, maxNodes |-> 1, returned |-> 0, after |-> {}]

TypeOK ==
  /\ registry \in Registries
  /\ cancelled \subseteq Builds
  /\ visitedNodes \subseteq Packages
  /\ cycleDetected \subseteq Packages
  /\ \A b \in Builds : pc[b] \in {"idle", "seedLoop", "inCall", "afterSeed", "done"}

\* -------------------------------------------------------------------- init
\* the service, the panel and the controller right after construction
InitWith(registries) ==
  /\ registry \in registries
  /\ raisedEarly = {}
  /\ selection = <<>>
  /\ cancellation = 0
  /\ handler = [b \in Builds |-> NoHandler]
  /\ firedEarly = {}
  /\ outbox = {}
  /\ graphCache = [k \in CacheKeys |-> 0]
  /\ clearedSince = {}
  /\ clearMark = 0
  /\ cmCache = [k \in Keys |-> Absent]
  /\ cmResult = NoResult
  /\ cmLast = [k \in Keys |-> NeverSet]
  /\ calls = [h \in Builds |-> NoCall]
  /\ quiet = {}
  /\ now = 0
  /\ cache = [p \in Packages |-> Absent]
  /\ visitedNodes = {}
  /\ cycleDetected = {}
  /\ netCalls = 0
  /\ cancelled = {}
  /\ pc = [b \in Builds |-> "idle"]
  /\ args = [b \in Builds |-> [packageNames |-> <<>>, maxDepth |-> 0, maxNodes |-> 1]]
  /\ seedIdx = [b \in Builds |-> 1]
  /\ nodes = [b \in Builds |-> <<>>]
  /\ edges = [b \in Builds |-> <<>>]
  /\ stack = [b \in Builds |-> <<>>]
  /\ lookups = [b \in Builds |-> 0]
  /\ failures = [b \in Builds |-> 0]
  /\ preCancelled = [b \in Builds |-> FALSE]

Init == InitWith(Registries)

\* ------------------------------------------- NpmDependenciesService actions
\* build b has nothing to run before the next event: it has not started, it
\* awaits a network answer, or it has returned and its host handler went on.
\* (A cache hit, a return and the handler's continuation are promise jobs:
\* they run before any message, timer or network event is delivered.)
Yielding(b) ==
  \/ pc[b] = "idle"
  \/ pc[b] = "done" /\ handler[b].at \notin {"racing", "awaiting"}
  \/ pc[b] = "inCall" /\ Top(b).at \in {"awaitSelf", "awaitDep"} /\ ~Top(b).hit

\* JavaScript runs build b's jobs to completion before anything else runs
OthersYield(b) == \A c \in Builds \ {b} : Yielding(c)

\* the event loop is free to deliver a message, a timer or a user action
AllYield == \A c \in Builds : Yielding(c)

\* buildGraph, lines 40-52: fresh lists, the two instance sets are replaced
BuildGraph(b, packageNames, maxDepth, maxNodes) ==
  /\ pc[b] = "idle"
  /\ args' = [args EXCEPT ![b] = [packageNames |-> packageNames,
                                  maxDepth |-> maxDepth, maxNodes |-> maxNodes]]
  /\ nodes' = [nodes EXCEPT ![b] = <<>>]
  /\ edges' = [edges EXCEPT ![b] = <<>>]
  /\ visitedNodes' = {}
  /\ cycleDetected' = {}
  /\ seedIdx' = [seedIdx EXCEPT ![b] = 1]
  /\ pc' = [pc EXCEPT ![b] = "seedLoop"]
  /\ preCancelled' = [preCancelled EXCEPT ![b] = b \in cancelled]
  /\ UNCHANGED <<registry, cmVars, now, netCalls, stack, lookups, failures>>

\* buildGraph, lines 54-70: loop head, cancellation check, call for the seed
SeedLoop(b) ==
  /\ OthersYield(b)
  /\ pc[b] = "seedLoop"
  /\ IF seedIdx[b] > Len(SeedsOf(args[b].packageNames)) \/ b \in cancelled
       THEN /\ pc' = [pc EXCEPT ![b] = "done"]
            /\ UNCHANGED stack
       ELSE /\ stack' = [stack EXCEPT ![b] =
                           <<NewFrame(Trim(SeedsOf(args[b].packageNames)[seedIdx[b]]), 0)>>]
            /\ pc' = [pc EXCEPT ![b] = "inCall"]
  /\ UNCHANGED <<hostVars, raisedEarly, registry, cmVars, ctlVars, svcVars, cancelled, args, seedIdx, nodes, edges,
                 lookups, failures, preCancelled>>

\* buildGraph, lines 72-76: after the seed's traversal returned
AfterSeed(b) ==
  /\ OthersYield(b)
  /\ pc[b] = "afterSeed"
  /\ IF Len(nodes[b]) >= args[b].maxNodes
       THEN /\ pc' = [pc EXCEPT ![b] = "done"]
            /\ UNCHANGED seedIdx
       ELSE /\ pc' = [pc EXCEPT ![b] = "seedLoop"]
            /\ seedIdx' = [seedIdx EXCEPT ![b] = NextSeed(@)]
  /\ UNCHANGED <<hostVars, raisedEarly, registry, cmVars, ctlVars, svcVars, cancelled, args, nodes, edges, stack,
                 lookups, failures, preCancelled>>

\* traverseDependencies, lines 94-112: guards, cycle check, start of the fetch
Enter(b) ==
  /\ OthersYield(b)
  /\ pc[b] = "inCall"
  /\ Top(b).at = "enter"
  /\ LET f == Top(b) IN
     IF EntryGuard(b, f)
       THEN /\ Return(b)
            /\ UNCHANGED <<visitedNodes, cycleDetected, netCalls, lookups>>
       ELSE IF OnPath(f.packageName)
         THEN /\ cycleDetected' = cycleDetected \cup {f.packageName}
              /\ Return(b)
              /\ UNCHANGED <<visitedNodes, netCalls, lookups>>
         ELSE /\ visitedNodes' = visitedNodes \cup {f.packageName}
              /\ stack' = SetTop(b, Fetching(f, f.packageName, "awaitSelf"))
              /\ lookups' = [lookups EXCEPT ![b] = @ + 1]
              /\ netCalls' = IF CacheHit(f.packageName) THEN netCalls ELSE netCalls + 1
              /\ UNCHANGED <<cycleDetected, pc>>
  /\ UNCHANGED <<hostVars, raisedEarly, registry, cmVars, ctlVars, now, cache, cancelled, args, seedIdx, nodes, edges,
                 failures, preCancelled>>

\* traverseDependencies, lines 112-137: the package's own descriptor arrived
SelfFetched(b, r) ==
  /\ OthersYield(b)
  /\ pc[b] = "inCall"
  /\ Top(b).at = "awaitSelf"
  /\ LET f == Top(b) IN
     /\ r \in Replies(f, f.packageName)
     /\ cache' = CacheAfter(f, f.packageName, r)
     /\ failures' = [failures EXCEPT ![b] = IF r.ok THEN @ ELSE @ + 1]
     /\ IF IsNull(r)
          THEN /\ visitedNodes' = visitedNodes \ {f.packageName}
               /\ Return(b)
               /\ UNCHANGED nodes
          ELSE /\ nodes' = [nodes EXCEPT ![b] =
                              AddNode(@, f.packageName, Version(r), f.currentDepth)]
               /\ stack' = SetTop(b, [f EXCEPT !.at = "loop", !.version = Version(r),
                                               !.depEntries = DepEntries(r, Version(r)),
                                               !.i = 1])
               /\ UNCHANGED <<visitedNodes, pc>>
  /\ UNCHANGED <<hostVars, raisedEarly, registry, cmVars, ctlVars, now, cycleDetected, netCalls, cancelled, args, seedIdx,
                 edges, lookups, preCancelled>>

\* traverseDependencies, lines 140-145 and 186: loop head, break, dep fetch
DepLoop(b) ==
  /\ OthersYield(b)
  /\ pc[b] = "inCall"
  /\ Top(b).at = "loop"
  /\ LET f == Top(b) IN
     IF f.i > Len(f.depEntries) \/ LoopBreak(b)
       THEN /\ visitedNodes' = visitedNodes \ {f.packageName}
            /\ Return(b)
            /\ UNCHANGED <<netCalls, lookups>>
       ELSE /\ stack' = SetTop(b, Fetching(f, f.depEntries[f.i], "awaitDep"))
            /\ lookups' = [lookups EXCEPT ![b] = @ + 1]
            /\ netCalls' = IF CacheHit(f.depEntries[f.i]) THEN netCalls ELSE netCalls + 1
            /\ UNCHANGED <<visitedNodes, pc>>
  /\ UNCHANGED <<hostVars, raisedEarly, registry, cmVars, ctlVars, now, cache, cycleDetected, cancelled, args, seedIdx,
                 nodes, edges, failures, preCancelled>>

\* traverseDependencies, lines 145-180: the dependency's descriptor arrived
DepFetched(b, r) ==
  /\ OthersYield(b)
  /\ pc[b] = "inCall"
  /\ Top(b).at = "awaitDep"
  /\ LET f == Top(b)
         depName == f.depEntries[f.i]
         next == [f EXCEPT !.at = "loop", !.i = f.i + 1]
     IN
     /\ r \in Replies(f, depName)
     /\ cache' = CacheAfter(f, depName, r)
     /\ failures' = [failures EXCEPT ![b] = IF r.ok THEN @ ELSE @ + 1]
     /\ IF IsNull(r)
          THEN /\ stack' = SetTop(b, next)
               /\ UNCHANGED <<nodes, edges>>
          ELSE /\ nodes' = [nodes EXCEPT ![b] =
                              AddNode(@, depName, Version(r), f.currentDepth + 1)]
               /\ edges' = [edges EXCEPT ![b] =
                              AddEdge(@, NodeId(f.packageName, f.version),
                                         NodeId(depName, Version(r)))]
               /\ stack' = IF MayRecurse(f.currentDepth, args[b].maxDepth)
                             THEN [stack EXCEPT ![b] =
                                     Append([@ EXCEPT ![Len(@)] = next],
                                            NewFrame(depName, f.currentDepth + 1))]
                             ELSE SetTop(b, next)
  /\ UNCHANGED <<hostVars, raisedEarly, registry, cmVars, ctlVars, now, visitedNodes, cycleDetected, netCalls, cancelled,
                 pc, args, seedIdx, lookups, preCancelled>>

ClearCacheKeeps ==
  /\ cache' = cache
  /\ clearedSince' = clearedSince \cup {b \in Builds : pc[b] # "idle"}
  /\ clearMark' = netCalls

\* clearCache, lines 256-258
ClearCache ==
  /\ cache' = [p \in Packages |-> Absent]
  /\ clearedSince' = clearedSince \cup {b \in Builds : pc[b] # "idle"}
  /\ clearMark' = netCalls

\* CancellationTokenSource.cancel() on the sources of the tokens in S
Cancel(S) ==
  /\ cancelled' = cancelled \cup S
  /\ raisedEarly' = raisedEarly \cup {b \in S \ cancelled : pc[b] # "done"}

\* every value a fetchPackageInfo promise can resolve to
AllReplies == {registry[p] : p \in Packages} \cup {Null}

\* one step of the build b inside the service
Traverse(b) ==
  \/ SeedLoop(b)
  \/ AfterSeed(b)
  \/ Enter(b)
  \/ \E r \in AllReplies : SelfFetched(b, r)
  \/ DepLoop(b)
  \/ \E r \in AllReplies : DepFetched(b, r)

\* a buildGraph call is suspended at an await of fetchPackageInfo
Suspended(b) == pc[b] = "inCall" /\ Top(b).at \in {"awaitSelf", "awaitDep"}

\* the id the next buildGraph call (and its token and handler run) gets
NextBuild ==
  Cardinality({b \in Builds : pc[b] # "idle" \/ handler[b].at # "none"}) + 1

\* ------------------------------------------------ one isolated buildGraph call
CallBuildGraph ==
  /\ \A b \in Builds : pc[b] = "idle"
  /\ \E packageNames \in SeedLists, maxDepth \in MaxDepthChoices,
        maxNodes \in MaxNodesChoices :
       BuildGraph(NextBuild, packageNames, maxDepth, maxNodes)
  /\ UNCHANGED <<cache, tokVars, hostVars, ctlVars>>

Step == \E b \in Builds : Traverse(b)

\* the holder of the token cancels, before the call or while it awaits a fetch
RequestCancel ==
  \E b \in Builds :
    /\ (pc[b] = "idle" /\ b = NextBuild) \/ Suspended(b)
    /\ AllYield
    /\ b \notin cancelled
    /\ Cancel({b})
    /\ UNCHANGED <<registry, cmVars, ctlVars, svcVars, buildVars, hostVars>>

Next == CallBuildGraph \/ Step \/ RequestCancel

Spec == Init /\ [][Next]_vars

\* ---------------------------------- one buildGraph call, fetches come back
CallBuildGraphLive ==
  /\ \A b \in Builds : pc[b] = "idle"
  /\ \E packageNames \in LiveSeedLists, maxDepth \in MaxDepthChoices,
        maxNodes \in MaxNodesChoices :
       BuildGraph(NextBuild, packageNames, maxDepth, maxNodes)
  /\ UNCHANGED <<cache, tokVars, hostVars, ctlVars>>

NextLive == CallBuildGraphLive \/ Step \/ RequestCancel

\* every continuation that can run is run: each fetch resolves (answer,
\* error or the 10 s request timeout) and the event loop resumes the call
SpecFair == Init /\ [][NextLive]_vars /\ WF_vars(Step)

\* ------------------------- calls one after the other on one service, in time
\* the arguments of the repeated calls
CacheSeedLists == {<<"a">>, <<"a", "b">>}
CacheDepths == {MAX_DEPTH}
CacheNodeLimits == {TestMaxNodes}

\* the values of Date.now() looked at: around each multiple of the TTL
Instants == {k * cacheTTL - 1 : k \in 1..MaxPeriods} \cup {k * cacheTTL : k \in 1..MaxPeriods}

\* a caller awaits each buildGraph before it calls again
CallAfterReturn ==
  /\ \A b \in Builds : pc[b] \in {"idle", "done"}
  /\ NextBuild \in Builds
  /\ \E packageNames \in CacheSeedLists, maxDepth \in CacheDepths,
        maxNodes \in CacheNodeLimits :
       BuildGraph(NextBuild, packageNames, maxDepth, maxNodes)
  /\ UNCHANGED <<cache, tokVars, hostVars, ctlVars>>

\* time passes while the event loop is idle or a request is in flight
Tick ==
  /\ AllYield
  /\ \E t \in Instants : t > now /\ now' = t
  /\ UNCHANGED <<registry, cmVars, ctlVars, cache, visitedNodes, cycleDetected, netCalls, tokVars,
                 buildVars, hostVars>>

\* NpmDepsService.clearCache() called by the holder of the service
CallClearCache ==
  /\ AllYield
  /\ \E b \in Builds : pc[b] # "idle"
  /\ ClearCache
  /\ UNCHANGED <<registry, cmVars, ctlVars, now, visitedNodes, cycleDetected, netCalls, tokVars,
                 buildVars, selection, cancellation, handler, firedEarly, outbox,
                 graphCache>>

InitCache == InitWith(HostRegistries)

NextCache == CallAfterReturn \/ Step \/ Tick \/ CallClearCache \/ RequestCancel

SpecCache == InitCache /\ [][NextCache]_vars

\* ------------------------------- calls that overlap in time on one service
\* the arguments of the overlapping calls
OverlapSeedLists == {<<"a">>, <<"b">>}
OverlapDepths == {MAX_DEPTH, MaxDepthBound}

\* the registries they run against: a <-> b, and the diamond a -> b, c; b -> c
OverlapRegistries ==
  { Reg(Entry("1.0.0", <<"b">>), Entry("1.0.0", <<"a">>), Entry("1.0.0", <<>>)),
    Reg(Entry("1.0.0", <<"b", "c">>), Entry("1.0.0", <<"c">>), Entry("1.0.0", <<>>)) }

\* a caller calls buildGraph again while earlier calls await their fetches
CallOverlapping ==
  /\ AllYield
  /\ NextBuild \in Builds
  /\ \E packageNames \in OverlapSeedLists, maxDepth \in OverlapDepths :
       BuildGraph(NextBuild, packageNames, maxDepth, TestMaxNodes)
  /\ UNCHANGED <<cache, tokVars, hostVars, ctlVars>>

InitOverlap == InitWith(OverlapRegistries)

NextOverlap == CallOverlapping \/ Step

SpecOverlap == InitOverlap /\ [][NextOverlap]_vars

\* ------------------------------------------------------------ CacheManager
IsCacheValidInclusive(entry) == now - entry.timestamp <= managerTTL

\* isCacheValid, lines 54-56
IsCacheValid(entry) == now - entry.timestamp < managerTTL

\* get, lines 22-35
CmGet(key) ==
  /\ IF ~cmCache[key].present
       THEN /\ cmResult' = [op |-> "get", key |-> key, value |-> "undefined", at |-> now]
            /\ UNCHANGED cmCache
       ELSE IF IsCacheValid(cmCache[key])
         THEN /\ cmResult' = [op |-> "get", key |-> key, value |-> cmCache[key].data,
                              at |-> now]
              /\ UNCHANGED cmCache
         ELSE /\ cmCache' = [cmCache EXCEPT ![key] = Absent]
              /\ cmResult' = [op |-> "get", key |-> key, value |-> "undefined", at |-> now]
  /\ UNCHANGED <<registry, svcVars, tokVars, buildVars, hostVars, ctlVars, cmLast>>

\* set, lines 42-47
CmSet(key, data) ==
  /\ cmCache' = [cmCache EXCEPT ![key] =
                   [present |-> TRUE, data |-> data, timestamp |-> now]]
  /\ cmLast' = [cmLast EXCEPT ![key] = [set |-> TRUE, value |-> data, at |-> now]]
  /\ cmResult' = NoResult
  /\ UNCHANGED <<registry, svcVars, tokVars, buildVars, hostVars, ctlVars>>

\* clear, lines 61-63
CmClear ==
  /\ cmCache' = [k \in Keys |-> Absent]
  /\ cmLast' = [k \in Keys |-> NeverSet]
  /\ cmResult' = NoResult
  /\ UNCHANGED <<registry, svcVars, tokVars, buildVars, hostVars, ctlVars>>

InitManager == InitWith(HostRegistries)

NextManager ==
  \/ \E key \in Keys : CmGet(key)
  \/ \E key \in Keys, data \in Values : CmSet(key, data)
  \/ CmClear
  \/ Tick

SpecManager == InitManager /\ [][NextManager]_vars

\* ------------------------------------------------ NpmDepsGraphView (panel)
\* buildGraph, lines 344-355: the race was won by the graph
SettleMessages(b) ==
  IF b \notin cancelled
    THEN {Msg("updateGraph", b, b, selection)}
    ELSE {Msg("operationStopped", b, 0, <<>>)}

CaughtMessagesPartial(b) == {Msg("updateGraph", b, b, selection)}

\* buildGraph, lines 356-362: the race was lost to the 30 s timer
CaughtMessages(b) == {Msg("showError", b, 0, <<>>)}

\* handleMessage "changeSelection" / "refresh", lines 202-210, and buildGraph
\* down to its await, lines 294-342
PanelBuild(clearCache, packageNames) ==
  /\ AllYield
  /\ selection' = packageNames
  /\ IF Len(packageNames) = 0
       THEN /\ outbox' = outbox \cup {Msg("updateGraph", 0, 0, packageNames)}
            /\ UNCHANGED <<registry, cmVars, ctlVars, svcVars, tokVars, buildVars, cancellation,
                           handler, firedEarly, graphCache, clearedSince, clearMark>>
       ELSE /\ NextBuild \in Builds
            /\ Cancel(IF cancellation = 0 THEN {} ELSE {cancellation})
            /\ IF clearCache THEN ClearCache
                             ELSE UNCHANGED <<cache, clearedSince, clearMark>>
            /\ cancellation' = NextBuild
            /\ outbox' = outbox \cup {Msg("operationStarted", NextBuild, 0, <<>>)}
            /\ handler' = [handler EXCEPT ![NextBuild] = [at |-> "racing", key |-> <<>>]]
            /\ BuildGraph(NextBuild, packageNames, MAX_DEPTH, MAX_NODES)
            /\ UNCHANGED <<firedEarly, graphCache, ctlVars>>

\* handleMessage "stop", lines 212-214
PanelStop ==
  /\ AllYield
  /\ cancellation # 0
  /\ cancellation \notin cancelled
  /\ Cancel({cancellation})
  /\ UNCHANGED <<registry, cmVars, ctlVars, svcVars, buildVars, hostVars>>

\* progressToken.onCancellationRequested, lines 329-331: the user cancels the
\* notification of the running task b
PanelProgressCancel(b) ==
  /\ AllYield
  /\ handler[b].at # "none"
  /\ pc[b] # "done"
  /\ cancellation # 0
  /\ cancellation \notin cancelled
  /\ Cancel({cancellation})
  /\ UNCHANGED <<registry, cmVars, ctlVars, svcVars, buildVars, hostVars>>

\* the finally block, lines 363-367
PanelFinally(b) ==
  /\ cancellation' = 0
  /\ handler' = [handler EXCEPT ![b].at = "finished"]

\* the setTimeout callback, lines 318-320, then catch and finally, 356-367
PanelTimeout(b) ==
  /\ AllYield
  /\ handler[b].at = "racing"
  /\ pc[b] # "done"
  /\ outbox' = outbox \cup CaughtMessages(b) \cup {Msg("operationComplete", b, 0, <<>>)}
  /\ firedEarly' = firedEarly \cup {b}
  /\ PanelFinally(b)
  /\ UNCHANGED <<registry, cmVars, ctlVars, svcVars, tokVars, buildVars, selection, graphCache,
                 clearedSince, clearMark>>

\* buildGraph after its await, lines 342-355 and 363-367
PanelSettle(b) ==
  /\ OthersYield(b)
  /\ handler[b].at = "racing"
  /\ pc[b] = "done"
  /\ outbox' = outbox \cup SettleMessages(b) \cup {Msg("operationComplete", b, 0, <<>>)}
  /\ PanelFinally(b)
  /\ UNCHANGED <<registry, cmVars, ctlVars, svcVars, tokVars, buildVars, selection, firedEarly,
                 graphCache, clearedSince, clearMark>>

\* the production dependencies of the package.json of the folder that is picked
FolderSelections == {<<"b">>}

\* handleFolderSelected, lines 260-292: the folder's production dependencies
\* become the selection; no graph is built
PanelFolderSelected(packageNames) ==
  /\ AllYield
  /\ selection' = packageNames
  /\ outbox' = outbox \cup {Msg("packagesUpdated", 0, 0, packageNames)}
  /\ UNCHANGED <<registry, cmVars, ctlVars, svcVars, tokVars, buildVars, cancellation,
                 handler, firedEarly, graphCache, clearedSince, clearMark>>

InitPanel == InitWith(HostRegistries)

NextPanel ==
  \/ \E clearCache \in BOOLEAN, packageNames \in HostSelections :
       PanelBuild(clearCache, packageNames)
  \/ \E packageNames \in FolderSelections : PanelFolderSelected(packageNames)
  \/ PanelStop
  \/ \E b \in Builds : PanelProgressCancel(b)
  \/ \E b \in Builds : PanelTimeout(b)
  \/ \E b \in Builds : PanelSettle(b)
  \/ Step

SpecPanel == InitPanel /\ [][NextPanel]_vars

\* ------------- DependenciesInsightsView and DependenciesInsightsController
\* handleBuildGraph, lines 154-172, and getGraphData, lines 39-49
ViewBuildGraph(packageNames, w) ==
  /\ AllYield
  /\ NextBuild \in Builds
  /\ LET h == NextBuild
         key == CacheKey(w, packageNames)
     IN
     IF graphCache[key] # 0
       THEN /\ handler' = [handler EXCEPT ![h] = [at |-> "finished", key |-> key]]
            /\ outbox' = outbox \cup {Msg("setGraphData", h, graphCache[key], <<>>)}
            /\ UNCHANGED <<svcVars, buildVars, registry, cmVars, ctlVars>>
       ELSE /\ handler' = [handler EXCEPT ![h] = [at |-> "awaiting", key |-> key]]
            /\ BuildGraph(h, packageNames, ViewMaxDepth, ViewMaxNodes)
            /\ UNCHANGED <<cache, outbox, ctlVars>>
  /\ UNCHANGED <<tokVars, selection, cancellation, firedEarly, graphCache,
                 clearedSince, clearMark>>

\* getGraphData, lines 51-57, and handleBuildGraph, lines 174-180
ViewSettle(h) ==
  /\ OthersYield(h)
  /\ handler[h].at = "awaiting"
  /\ pc[h] = "done"
  /\ graphCache' = [graphCache EXCEPT ![handler[h].key] = h]
  /\ outbox' = IF h \notin cancelled
                 THEN outbox \cup {Msg("setGraphData", h, h, <<>>)}
                 ELSE outbox
  /\ handler' = [handler EXCEPT ![h].at = "finished"]
  /\ UNCHANGED <<registry, cmVars, ctlVars, svcVars, tokVars, buildVars, selection, cancellation,
                 firedEarly, clearedSince, clearMark>>

\* the user cancels the progress notification of handleBuildGraph run h
ViewProgressCancel(h) ==
  /\ AllYield
  /\ handler[h].at = "awaiting"
  /\ h \notin cancelled
  /\ Cancel({h})
  /\ UNCHANGED <<registry, cmVars, ctlVars, svcVars, buildVars, hostVars>>

\* handleRefresh, lines 128-149, and refreshAll, lines 102-106
ViewRefresh(tab) ==
  /\ AllYield
  /\ graphCache' = [k \in CacheKeys |-> 0]
  /\ ClearCache
  /\ outbox' = outbox \cup {Msg("setStatus", 0, 0, <<>>), Msg("hideLoading", 0, 0, <<>>)}
                  \cup (IF tab = "graph" THEN {Msg("setPackages", 0, 0, <<>>)} ELSE {})
  /\ UNCHANGED <<registry, cmVars, ctlVars, now, visitedNodes, cycleDetected, netCalls, tokVars,
                 buildVars, selection, cancellation, handler, firedEarly>>

InitView == InitWith(HostRegistries)

NextView ==
  \/ \E packageNames \in HostSelections, w \in Workspaces :
       ViewBuildGraph(packageNames, w)
  \/ \E h \in Builds : ViewSettle(h)
  \/ \E h \in Builds : ViewProgressCancel(h)
  \/ \E tab \in {"graph", "unused"} : ViewRefresh(tab)
  \/ Step

SpecView == InitView /\ [][NextView]_vars

\* =================================================================== claims
NodeIds(b) == {nodes[b][k].id : k \in 1..Len(nodes[b])}
EdgePairs(b) == {<<edges[b][k].from, edges[b][k].to>> : k \in 1..Len(edges[b])}
Labels(b) == {nodes[b][k].label : k \in 1..Len(nodes[b])}

\* C1: in every state of a build and in its result the node list holds at
\* most maxNodes nodes.
C1_BoundRespected == \A b \in Builds : Len(nodes[b]) <= args[b].maxNodes

\* a build that the ceiling stopped with a seed still unprocessed
C1_Witness ==
  \E b \in Builds :
    /\ pc[b] = "done" /\ b \notin cancelled /\ failures[b] = 0
    /\ Len(nodes[b]) = args[b].maxNodes
    /\ seedIdx[b] < Len(args[b].packageNames)

\* C2: every node of every build has level <= maxDepth, for every maxDepth >= 0.
C2_DepthRespected ==
  \A b \in Builds : \A k \in 1..Len(nodes[b]) : nodes[b][k].level <= args[b].maxDepth

\* C3: no two nodes of a build share an id and no two of its edges share a
\* (from, to) pair, at every moment of the build.
C3_Unique ==
  \A b \in Builds :
    /\ \A j, k \in 1..Len(nodes[b]) : nodes[b][j].id = nodes[b][k].id => j = k
    /\ \A j, k \in 1..Len(edges[b]) :
         (edges[b][j].from = edges[b][k].from /\ edges[b][j].to = edges[b][k].to) => j = k

\* a finished build that met ids again: more answered lookups than nodes
C3_Witness ==
  \E b \in Builds :
    /\ pc[b] = "done" /\ failures[b] = 0
    /\ Len(nodes[b]) >= 2 /\ Len(edges[b]) >= 2
    /\ lookups[b] > Len(nodes[b]) + 1

CycleRegistry ==
  Reg(Entry("1.0.0", <<"b">>), Entry("1.0.0", <<"a">>), Entry("1.0.0", <<>>))

IdA == NodeId("a", "1.0.0")
IdB == NodeId("b", "1.0.0")

\* buildGraph(["a"], maxDepth, 10) returned, on a <-> b, all lookups answered
C4_Case(b) ==
  /\ registry = CycleRegistry
  /\ args[b].packageNames = <<"a">>
  /\ args[b].maxNodes = TestMaxNodes
  /\ pc[b] = "done" /\ b \notin cancelled /\ failures[b] = 0

C4_Full(b) ==
  /\ Len(nodes[b]) = 2 /\ NodeIds(b) = {IdA, IdB}
  /\ Len(edges[b]) = 2 /\ EdgePairs(b) = {<<IdA, IdB>>, <<IdB, IdA>>}

\* C4 as claimed: on the two-package cycle, for every maxDepth >= 1 the result
\* is exactly the nodes a, b and the edges a->b, b->a.
C4_Original ==
  \A b \in Builds : (C4_Case(b) /\ args[b].maxDepth >= 1) => C4_Full(b)

\* C4 amended: on the two-package cycle the result is exactly the nodes a, b
\* and the edges a->b, b->a for every maxDepth >= 2; for maxDepth = 1 it is
\* the nodes a, b and the single edge a->b.
C4_CycleResult ==
  \A b \in Builds :
    C4_Case(b) =>
      /\ args[b].maxDepth >= 2 => C4_Full(b)
      /\ args[b].maxDepth = 1 =>
           /\ Len(nodes[b]) = 2 /\ NodeIds(b) = {IdA, IdB}
           /\ Len(edges[b]) = 1 /\ EdgePairs(b) = {<<IdA, IdB>>}

\* the cycle was walked into: a re-entered the active path at depth 2
C4_Witness ==
  \E b \in Builds : C4_Case(b) /\ args[b].maxDepth = 3 /\ "a" \in cycleDetected

\* C5: every buildGraph call that started eventually returns, when every
\* fetch it awaits comes back.
C5_Terminates == \A b \in Builds : (pc[b] # "idle") ~> (pc[b] = "done")

\* a returned build that ran into a circular declaration
C5_Witness ==
  \E b \in Builds : pc[b] = "done" /\ cycleDetected # {} /\ Len(edges[b]) >= 2

\* C6: once cancellation is requested the build starts no further lookup, and
\* a build handed an already-cancelled token returns the empty graph after
\* zero lookups.
C6_NoLookupAfterCancel ==
  /\ [][\A b \in Builds : b \in cancelled => lookups'[b] = lookups[b]]_vars
  /\ [](\A b \in Builds :
          (preCancelled[b] /\ pc[b] = "done") =>
            (lookups[b] = 0 /\ nodes[b] = <<>> /\ edges[b] = <<>>))

\* cancelled in mid-build, with dependencies left unvisited, and returned
C6_Witness ==
  \E b \in Builds :
    /\ b \in cancelled /\ ~preCancelled[b] /\ pc[b] = "done"
    /\ lookups[b] >= 1 /\ failures[b] = 0
    /\ Len(nodes[b]) < args[b].maxNodes
    /\ \E k \in 1..Len(nodes[b]) :
         /\ nodes[b][k].level = 0
         /\ \E d \in Packages :
              /\ \E i \in 1..Len(DepEntries(registry[nodes[b][k].label], nodes[b][k].version)) :
                   DepEntries(registry[nodes[b][k].label], nodes[b][k].version)[i] = d
              /\ d \notin Labels(b)

\* C7: when a build's cancellation token is raised before the build finishes,
\* the webview receives a 'stopped' terminal status for that build and never
\* that build's graph as a completed/updated result, in the graph panel and in
\* the Dependencies Insights view alike.
C7_CancelReported ==
  \A b \in Builds :
    (handler[b].at = "finished" /\ b \in raisedEarly) =>
      /\ \E m \in outbox : m.of = b /\ m.command = "operationStopped"
      /\ ~ \E m \in outbox :
             m.graph = b /\ m.command \in {"updateGraph", "setGraphData"}

\* C8: if a build has not finished when the 30-second whole-build timer fires,
\* the webview is sent an error for that build and never an update carrying
\* that build's graph, however much of the graph has been or will be built.
C8_TimeoutDistinct ==
  \A b \in firedEarly :
    /\ \E m \in outbox : m.of = b /\ m.command = "showError"
    /\ ~ \E m \in outbox : m.graph = b /\ m.command = "updateGraph"

\* the timer fired on a build that had already collected nodes, and the build
\* has since run to its end
C8_Witness ==
  \E b \in firedEarly :
    /\ pc[b] = "done"
    /\ Len(nodes[b]) >= 1
    /\ \E m \in outbox : m.of = b /\ m.command = "operationComplete"

\* C9: a lookup that fails adds no node and no edge and stops nothing: after a
\* failed dependency lookup the same call goes on with the next dependency,
\* after a failed seed lookup the seed loop goes on, and a build ends before
\* its last seed only on the node ceiling or on cancellation.
C9_FailuresAbsorbed ==
  /\ [][\A b \in Builds :
          failures'[b] > failures[b] =>
            /\ nodes'[b] = nodes[b] /\ edges'[b] = edges[b]
            /\ Top(b).at = "awaitDep" =>
                 /\ pc'[b] = "inCall" /\ Len(stack'[b]) = Len(stack[b])
                 /\ stack'[b][Len(stack[b])].at = "loop"
                 /\ stack'[b][Len(stack[b])].i = Top(b).i + 1
            /\ (Top(b).at = "awaitSelf" /\ Len(stack[b]) = 1) =>
                 /\ pc'[b] = "afterSeed"
                 /\ Len(nodes'[b]) < args[b].maxNodes]_vars
  /\ [](\A b \in Builds :
          (pc[b] = "done" /\ b \notin cancelled /\ Len(nodes[b]) < args[b].maxNodes)
            => seedIdx[b] > Len(args[b].packageNames))

\* a dependency failed, yet a later seed and dependency got their nodes
C9_Witness ==
  \E b \in Builds :
    /\ pc[b] = "done" /\ failures[b] >= 1 /\ b \notin cancelled
    /\ Len(nodes[b]) >= 2 /\ Len(edges[b]) >= 1
    /\ Len(nodes[b]) < args[b].maxNodes

\* C10: a build with an empty seed list has no node and no edge and starts no
\* lookup.
C10_EmptySeeds ==
  \A b \in Builds :
    (pc[b] # "idle" /\ args[b].packageNames = <<>>) =>
      (nodes[b] = <<>> /\ edges[b] = <<>> /\ lookups[b] = 0 /\ stack[b] = <<>>)

C10_Witness ==
  \E b \in Builds : pc[b] = "done" /\ args[b].packageNames = <<>> /\ netCalls = 0

\* the (trimmed) names of the seed list of build b
SeedSet(b) ==
  {Trim(args[b].packageNames[k]) : k \in 1..Len(args[b].packageNames)}

\* C11: a build with maxDepth = 0 holds only nodes of its seed packages and
\* no edge, whatever the seeds declare as dependencies.
C11_DepthZeroSeedsOnly ==
  \A b \in Builds :
    (pc[b] # "idle" /\ args[b].maxDepth = 0) =>
      (Labels(b) \subseteq SeedSet(b) /\ edges[b] = <<>>)

\* every entry of the response cache is younger than the TTL
AllFresh == \A p \in Packages : cache[p].present => now - cache[p].timestamp < cacheTTL

\* build b repeats, after its return, the call of build b - 1, and the cache
\* was not cleared since that call began
Repeats(b) ==
  /\ pc[b - 1] = "done" /\ pc[b] # "idle"
  /\ args[b] = args[b - 1]
  /\ (b - 1) \notin clearedSince

Awaited(f) == IF f.at = "awaitSelf" THEN f.packageName ELSE f.depEntries[f.i]

\* C13: a lookup made after the package's cache entry reached its TTL, or
\* after clearCache(), is answered by a new registry request: whenever a
\* lookup is answered from the cache, the entry is younger than the TTL and
\* holds the response of a request issued after the latest clearCache().
C13_RefetchedAfterExpiryOrClear ==
  \A b \in Builds :
    (Suspended(b) /\ Top(b).hit) =>
      /\ now - cache[Awaited(Top(b))].timestamp < cacheTTL
      /\ Top(b).req > clearMark

\* the latest set of key k was less than the TTL ago and no clear followed it
Live(k) == cmLast[k].set /\ now - cmLast[k].at < managerTTL

\* C14: get(k) returns the value of the most recent set(k, v) exactly when
\* that set happened less than the TTL ago (an entry aged exactly the TTL is
\* expired) and no clear() followed it; otherwise it returns undefined, and a
\* get that finds an expired entry removes it from the cache.
C14_GetSetClear ==
  (cmResult.op = "get" /\ cmResult.at = now) =>
    /\ cmResult.value = IF Live(cmResult.key) THEN cmLast[cmResult.key].value
                                               ELSE "undefined"
    /\ ~Live(cmResult.key) => ~cmCache[cmResult.key].present

\* a get found the entry aged exactly the TTL, returned undefined and removed it
C14_Witness ==
  /\ cmResult.op = "get" /\ cmResult.at = now
  /\ cmLast[cmResult.key].set /\ now - cmLast[cmResult.key].at = managerTTL
  /\ cmResult.value = "undefined" /\ ~cmCache[cmResult.key].present

\* the packages whose traverseDependencies calls are suspended below the
\* newest call of build b: the active call path the newest call was made from
Chain(b) == {stack[b][k].packageName : k \in 1..Len(stack[b]) - 1}

\* build b's newest call is at its cycle check: it passed the depth, size and
\* cancellation guards, and this step is b's
AtCycleCheck(b) ==
  /\ pc[b] = "inCall" /\ Top(b).at = "enter" /\ ~EntryGuard(b, Top(b))
  /\ stack'[b] # stack[b]

\* C15: the cycle check stops a call exactly when its package is on the
\* active call path of its build (a package met again after its earlier
\* expansion returned is expanded again), and a name is recorded as a cycle
\* member only when it re-entered the active path.
C15_ActivePathOnly ==
  [][/\ \A b \in Builds :
          AtCycleCheck(b) =>
            (Len(stack'[b]) < Len(stack[b]) <=> Top(b).packageName \in Chain(b))
     /\ cycleDetected' \subseteq
          cycleDetected \cup {p \in Packages :
                                \E b \in Builds : /\ AtCycleCheck(b)
                                                  /\ p = Top(b).packageName
                                                  /\ p \in Chain(b)}]_vars

\* C16: a node, once in the node list of a build, keeps its place, id, label,
\* version and level for the rest of the build, and a node is appended only
\* under an id the list does not hold yet.
C16_NodesStable ==
  [][\A b \in Builds :
       pc[b] # "idle" =>
         /\ Len(nodes'[b]) >= Len(nodes[b])
         /\ \A k \in 1..Len(nodes[b]) : nodes'[b][k] = nodes[b][k]
         /\ \A k \in (Len(nodes[b]) + 1)..Len(nodes'[b]) :
              nodes'[b][k].id \notin NodeIds(b)]_vars

\* a seed (level 0) was found again as a dependency of a node of level >= 1
C16_Witness ==
  \E b \in Builds :
    /\ pc[b] = "done"
    /\ \E j, k \in 1..Len(nodes[b]) :
         /\ nodes[b][j].level = 0 /\ nodes[b][k].level >= 1
         /\ HasEdge(edges[b], nodes[b][k].id, nodes[b][j].id)

\* C17 as claimed: every seed package that has a node in the result has level
\* 0 on it.
C17_Original ==
  \A b \in Builds :
    pc[b] = "done" =>
      \A k \in 1..Len(nodes[b]) :
        nodes[b][k].label \in SeedSet(b) => nodes[b][k].level = 0

\* C17 amended: the node that a seed's own call appends has level 0; a seed
\* that has a node of another level was first added as a dependency (its node
\* has an incoming edge) and keeps the level of that first discovery.
C17_SeedLevel ==
  /\ [][\A b \in Builds :
          (/\ pc[b] = "inCall" /\ Len(stack[b]) = 1 /\ Top(b).at = "awaitSelf"
           /\ nodes'[b] # nodes[b])
            => /\ Len(nodes'[b]) = Len(nodes[b]) + 1
               /\ nodes'[b][Len(nodes'[b])].label = Top(b).packageName
               /\ nodes'[b][Len(nodes'[b])].level = 0]_vars
  /\ [](\A b \in Builds : \A k \in 1..Len(nodes[b]) :
          (nodes[b][k].label \in SeedSet(b) /\ nodes[b][k].level # 0) =>
            \E j \in 1..Len(nodes[b]) : HasEdge(edges[b], nodes[b][j].id, nodes[b][k].id))

\* the second seed was already in the list as a dependency of the first: its
\* own call ran, all lookups answered, and its node still has level 1
C17_Witness ==
  \E b \in Builds :
    /\ pc[b] = "done" /\ failures[b] = 0 /\ b \notin cancelled
    /\ args[b].maxDepth >= 1
    /\ Len(args[b].packageNames) = 2 /\ seedIdx[b] > 2
    /\ \E k \in 1..Len(nodes[b]) :
         /\ nodes[b][k].label = Trim(args[b].packageNames[2])
         /\ nodes[b][k].level = 1
    /\ \E k \in 1..Len(nodes[b]) :
         /\ nodes[b][k].label = Trim(args[b].packageNames[1])
         /\ nodes[b][k].level = 0

\* the (trimmed) seed names that precede the seed build b is at
EarlierSeeds(b) ==
  {Trim(args[b].packageNames[k]) : k \in 1..(seedIdx[b] - 1)}

\* C18: a (trimmed) name that occurs more than once in the seed list is
\* expanded as a seed only once: the seed loop starts no call, and so no
\* lookup, for a name that occurred earlier in the list.
C18_SeedsDeduplicated ==
  [][\A b \in Builds :
       (pc[b] = "seedLoop" /\ pc'[b] = "inCall") =>
         stack'[b][1].packageName \notin EarlierSeeds(b)]_vars

\* the dependencies the registry entry of package p declares
Declared(p) == {registry[p].versions["1.0.0"][i] : i \in 1..Len(registry[p].versions["1.0.0"])}

\* build b returned with every lookup answered, below its node ceiling, and
\* its depth limit admits the seeds' dependencies
Unhindered(b) ==
  /\ pc[b] = "done" /\ b \notin cancelled /\ failures[b] = 0
  /\ Len(nodes[b]) < args[b].maxNodes
  /\ args[b].maxDepth >= 1

\* C19: a seed whose registry entry carries no latest tag gets the node
\* name@unknown, and the dependencies its entry declares are expanded all the
\* same: each has a node and an edge from name@unknown.
C19_UnknownVersionExpanded ==
  \A b \in Builds :
    Unhindered(b) =>
      \A p \in SeedSet(b) :
        registry[p].latest = "" =>
          /\ NodeId(p, "unknown") \in NodeIds(b)
          /\ \A d \in Declared(p) :
               \E k \in 1..Len(nodes[b]) :
                 /\ nodes[b][k].label = d
                 /\ HasEdge(edges[b], NodeId(p, "unknown"), nodes[b][k].id)

RECURSIVE Expand(_, _, _, _, _, _)
RECURSIVE ExpandDeps(_, _, _, _, _, _, _, _, _)

\* traverseDependencies run by itself to its return, every lookup answered:
\* the node and edge lists g it leaves, path being its own active call path
Expand(name, depth, maxDepth, maxNodes, g, path) ==
  IF depth > maxDepth \/ Len(g.nodes) >= maxNodes \/ name \in path
    THEN g
    ELSE LET version == Version(registry[name])
         IN ExpandDeps(name, version, DepEntries(registry[name], version), 1,
                       depth, maxDepth, maxNodes,
                       [g EXCEPT !.nodes = AddNode(@, name, version, depth)],
                       path \cup {name})

\* its dependency loop from the i-th entry on
ExpandDeps(name, version, depEntries, i, depth, maxDepth, maxNodes, g, path) ==
  IF i > Len(depEntries) \/ Len(g.nodes) >= maxNodes
    THEN g
    ELSE LET depName == depEntries[i]
             depVersion == Version(registry[depName])
             added == [nodes |-> AddNode(g.nodes, depName, depVersion, depth + 1),
                       edges |-> AddEdge(g.edges, NodeId(name, version),
                                                  NodeId(depName, depVersion))]
         IN ExpandDeps(name, version, depEntries, i + 1, depth, maxDepth, maxNodes,
                       IF MayRecurse(depth, maxDepth)
                         THEN Expand(depName, depth + 1, maxDepth, maxNodes, added, path)
                         ELSE added,
                       path)

RECURSIVE SeedsFrom(_, _, _, _, _)

\* the seed loop of buildGraph from the i-th seed on
SeedsFrom(packageNames, i, maxDepth, maxNodes, g) ==
  IF i > Len(packageNames)
    THEN g
    ELSE LET after == Expand(Trim(packageNames[i]), 0, maxDepth, maxNodes, g, {})
         IN IF Len(after.nodes) >= maxNodes
              THEN after
              ELSE SeedsFrom(packageNames, i + 1, maxDepth, maxNodes, after)

\* the graph buildGraph returns when the call runs alone on the service
Alone(a) ==
  SeedsFrom(a.packageNames, 1, a.maxDepth, a.maxNodes, [nodes |-> <<>>, edges |-> <<>>])

\* C20: calls of buildGraph that overlap in time on one service do not
\* interfere: each call whose lookups were all answered returns exactly the
\* graph it returns when it runs alone against the same registry.
C20_AsIfAlone ==
  \A b \in Builds :
    (pc[b] = "done" /\ failures[b] = 0 /\ b \notin cancelled) =>
      [nodes |-> nodes[b], edges |-> edges[b]] = Alone(args[b])

\* handleMessage "stop", line 213: the sources this.cancellation?.cancel() reaches
StopTargets == IF cancellation = 0 THEN {} ELSE {cancellation}

\* the panel's buildGraph run b still awaits its race and its build has not returned
PanelRunning(b) == handler[b].at = "racing" /\ pc[b] # "done"

\* C21: whenever a build started by the graph panel is still running, a 'stop'
\* message requests the cancellation of that build: the build is one of the
\* sources the stop handler cancels, unless its cancellation was requested before.
C21_StopReachesRunning ==
  \A b \in Builds : (PanelRunning(b) /\ b \notin cancelled) => b \in StopTargets

\* ------------------- DependenciesInsightsController, called by any client
\* the limits of the controller's test: getGraphData(["express"], undefined, 1, 5, false)
TestCtlMaxDepth == 1
TestCtlMaxNodes == 5

\* the arguments the calls are made with
CtlSeedLists == {<<"a">>, <<"b">>}
CtlNodeLimits == {1, TestCtlMaxNodes}

GraphCacheHitNever(key, clearCache) == FALSE

\* getGraphData, lines 42-47: the cached entry is looked at and found
GraphCacheHit(key, clearCache) == ~clearCache /\ graphCache[key] # 0

\* the resolved calls for key that still stand when another call stores for key
QuietAfterStore(h, key) == (quiet \ {g \in Builds : handler[g].key = key}) \cup {h}

\* getGraphData, lines 31-49: down to the return of the cached data or to the
\* await of the build
GetGraphData(packageNames, w, maxDepth, maxNodes, clearCache) ==
  /\ AllYield
  /\ NextBuild \in Builds
  /\ LET h == NextBuild
         key == CacheKey(w, packageNames)
         call == [clearCache |-> clearCache, maxNodes |-> maxNodes, returned |-> 0,
                  after |-> {g \in quiet : handler[g].key = key}]
     IN
     IF GraphCacheHit(key, clearCache)
       THEN /\ handler' = [handler EXCEPT ![h] = [at |-> "finished", key |-> key]]
            /\ calls' = [calls EXCEPT ![h] = [call EXCEPT !.returned = graphCache[key]]]
            /\ quiet' = quiet \cup {h}
            /\ UNCHANGED <<svcVars, buildVars, registry, cmVars>>
       ELSE /\ handler' = [handler EXCEPT ![h] = [at |-> "awaiting", key |-> key]]
            /\ calls' = [calls EXCEPT ![h] = call]
            /\ BuildGraph(h, packageNames, maxDepth, maxNodes)
            /\ UNCHANGED <<cache, quiet>>
  /\ UNCHANGED <<tokVars, selection, cancellation, firedEarly, outbox, graphCache,
                 clearedSince, clearMark>>

\* getGraphData, lines 49-57: the build resolved, its graph is stored and returned
GetGraphDataResume(h) ==
  /\ OthersYield(h)
  /\ handler[h].at = "awaiting"
  /\ pc[h] = "done"
  /\ graphCache' = [graphCache EXCEPT ![handler[h].key] = h]
  /\ calls' = [calls EXCEPT ![h].returned = h]
  /\ quiet' = QuietAfterStore(h, handler[h].key)
  /\ handler' = [handler EXCEPT ![h].at = "finished"]
  /\ UNCHANGED <<registry, cmVars, svcVars, tokVars, buildVars, selection, cancellation,
                 firedEarly, outbox, clearedSince, clearMark>>

\* refreshAll, lines 102-106 (also run by the package.json watcher, 114-124)
RefreshAll ==
  /\ AllYield
  /\ \E h \in Builds : handler[h].at # "none"
  /\ graphCache' = [k \in CacheKeys |-> 0]
  /\ ClearCache
  /\ quiet' = {}
  /\ UNCHANGED <<registry, cmVars, calls, now, visitedNodes, cycleDetected, netCalls,
                 tokVars, buildVars, selection, cancellation, handler, firedEarly, outbox>>

InitController == InitWith(HostRegistries)

NextController ==
  \/ \E packageNames \in CtlSeedLists, w \in Workspaces, maxNodes \in CtlNodeLimits,
        clearCache \in BOOLEAN :
       GetGraphData(packageNames, w, TestCtlMaxDepth, maxNodes, clearCache)
  \/ \E h \in Builds : GetGraphDataResume(h)
  \/ RefreshAll
  \/ RequestCancel
  \/ Step

SpecController == InitController /\ [][NextController]_vars

\* call h was made and has returned
Resolved(h) == handler[h].at = "finished"

\* C22: when getGraphData is called twice with the same packageNames and
\* workspace and clearCache = false, the second call made after the first has
\* resolved with no refreshAll (and nothing else stored for these arguments) in
\* between, the second call returns the very same GraphData object as the
\* first and starts no build.
C22_SecondFromCache ==
  \A h \in Builds : \A g \in calls[h].after :
    (~calls[h].clearCache /\ ~calls[g].clearCache)
      => /\ Resolved(h)
         /\ calls[h].returned = calls[g].returned
         /\ pc[h] = "idle"

\* the first call built a graph of two nodes, the second was answered
C22_Witness ==
  \E h \in Builds : \E g \in calls[h].after :
    /\ ~calls[h].clearCache /\ ~calls[g].clearCache
    /\ pc[g] = "done" /\ calls[g].returned = g /\ Len(nodes[g]) = 2
    /\ Resolved(h)

RECURSIVE Within(_, _)

\* the packages within dependency distance <= k of some package of S
Within(S, k) ==
  IF k = 0 THEN S
  ELSE LET W == Within(S, k - 1) IN W \cup UNION {Declared(p) : p \in W}

\* every package some package of S reaches
Reachable(S) == Within(S, Cardinality(Packages))

\* the (from, to) package names of the edges of build b
EdgeNames(b) == {<<edges[b][k].from[1], edges[b][k].to[1]>> : k \in 1..Len(edges[b])}

\* build b returned uncancelled, every lookup answered, maxDepth >= 1 and
\* maxNodes above the number of reachable packages
Unbounded(b) ==
  /\ pc[b] = "done" /\ b \notin cancelled /\ failures[b] = 0
  /\ args[b].maxDepth >= 1
  /\ args[b].maxNodes > Cardinality(Reachable(SeedSet(b)))

\* C23: with every package available, no cancellation, maxDepth >= 1, maxNodes
\* strictly larger than the number of reachable packages and at most 10
\* dependencies per package, the result of buildGraph is exactly: nodes = the
\* packages within dependency distance <= maxDepth of some seed, edges = all
\* declared dependencies of the packages within distance <= maxDepth - 1.
C23_ExactGraph ==
  \A b \in Builds :
    Unbounded(b) =>
      /\ Labels(b) = Within(SeedSet(b), args[b].maxDepth)
      /\ EdgeNames(b) = {<<p, d>> : p \in Within(SeedSet(b), args[b].maxDepth - 1),
                                    d \in Packages} \cap
                        {<<p, d>> \in Packages \X Packages : d \in Declared(p)}

\* the same, for registries whose every entry carries a latest tag
C23_TaggedOnly ==
  (\A p \in Packages : registry[p].latest # "") => C23_ExactGraph

\* the packages of the traverseDependencies calls of build b that have passed
\* their cycle check and not returned: the calls that are on the active path
ActiveCalls(b) ==
  {stack[b][k].packageName : k \in {j \in 1..Len(stack[b]) : stack[b][j].at # "enter"}}

\* C24: within one build, every traverseDependencies call leaves the
\* active-path set exactly as it found it on every exit path: at every moment
\* the set holds the packages of the calls that are still running and nothing
\* else, so a call that returns has taken out what it put in, and the set is
\* empty whenever buildGraph returns.
C24_PathRestored ==
  \A b \in Builds : pc[b] # "idle" => visitedNodes = ActiveCalls(b)

\* a returned build that met a cycle, an unavailable package and a nested call
C24_Witness ==
  \E b \in Builds :
    /\ pc[b] = "done" /\ visitedNodes = {}
    /\ cycleDetected # {} /\ failures[b] >= 1 /\ Len(nodes[b]) >= 2

\* build b has reached its node ceiling
AtCeiling(b) == pc[b] # "idle" /\ Len(nodes[b]) >= args[b].maxNodes

\* build b was called with maxNodes = 1 and the one seed a, a declares b, and
\* it returned uncancelled with every lookup answered
CeilingExample(b) ==
  /\ pc[b] = "done" /\ b \notin cancelled /\ failures[b] = 0
  /\ args[b].packageNames = <<"a">> /\ args[b].maxNodes = 1
  /\ "b" \in Declared("a")

\* C25: while the accumulated node count is >= maxNodes, the build starts no
\* registry lookup, appends no node and processes no further seed; with
\* maxNodes = 1 and a seed a that depends on b the result is exactly the one
\* node a and no edges.
C25_CeilingHalts ==
  /\ [][\A b \in Builds :
          AtCeiling(b) =>
            /\ lookups'[b] = lookups[b]
            /\ nodes'[b] = nodes[b]
            /\ ~(pc[b] = "seedLoop" /\ pc'[b] = "inCall")]_vars
  /\ [](\A b \in Builds :
          CeilingExample(b) =>
            /\ Len(nodes[b]) = 1 /\ nodes[b][1].label = "a"
            /\ edges[b] = <<>>)

\* the example build returned, after the one lookup of a
C25_Witness ==
  \E b \in Builds : CeilingExample(b) /\ lookups[b] = 1 /\ Len(nodes[b]) = 1

\* C26: the 30-second budget bounds the build itself: once the timeout has
\* fired and been reported to the caller, the timed-out build starts no
\* further registry lookup.
C26_TimeoutStopsBuild ==
  [][\A b \in firedEarly : lookups'[b] = lookups[b]]_vars

\* C27: in every state of a build and in its result, every edge has both its
\* from and its to equal to the id of a node that is already in the node list,
\* also when the build was stopped by maxNodes, maxDepth, cancellation or a
\* failed lookup.
C27_NoDanglingEdge ==
  \A b \in Builds : \A k \in 1..Len(edges[b]) :
    edges[b][k].from \in NodeIds(b) /\ edges[b][k].to \in NodeIds(b)

\* a build with edges that the node ceiling stopped after a failed lookup
C27_Witness ==
  \E b \in Builds :
    /\ pc[b] = "done" /\ Len(edges[b]) >= 2
    /\ Len(nodes[b]) >= args[b].maxNodes /\ failures[b] >= 1

\* C28: for every call getGraphData(packageNames, workspace, maxDepth,
\* maxNodes, ...) the returned graph has at most maxNodes nodes, whatever
\* limits earlier calls for the same packageNames and workspace were made with.
C28_ReturnedWithinLimit ==
  \A h \in Builds :
    calls[h].returned # 0 => Len(nodes[calls[h].returned]) <= calls[h].maxNodes

\* the build whose graph the controller handed to call h was cancelled before
\* it returned
ServedCancelled(h) == calls[h].returned # 0 /\ calls[h].returned \in raisedEarly

\* C29: the controller never serves the result of a cancelled build from its
\* graph cache: a getGraphData call whose own token is not cancelled returns
\* the graph of a build that was not cancelled.
C29_NoCancelledGraphServed ==
  \A h \in Builds : (Resolved(h) /\ h \notin cancelled) => ~ServedCancelled(h)

\* C30: every updateGraph message the graph panel sends carries a graph that
\* was built from exactly the selection carried in that same message: after
\* the selection changes (changeSelection, refresh or folder selection, also to
\* an empty selection), a build started for an earlier selection never
\* delivers its graph.
C30_GraphOfItsSelection ==
  \A m \in outbox :
    m.command = "updateGraph" =>
      IF m.graph = 0 THEN m.selection = <<>>
                     ELSE m.selection = args[m.graph].packageNames

====
